---- MODULE Spec2Model ----
(***************************************************************************)
(* A state-machine model of the notebook GNN_ai4dd.ipynb: the SMILES       *)
(* featurizer (read_smiles_data, make_pyg), the dataset cells (shuffle,    *)
(* degenerate-graph filter, 70/30 split), the training loop fitGNN and the *)
(* cells that construct, train and evaluate the two GNN models.            *)
(*                                                                         *)
(* Numeric tensors are abstracted: a prediction is the tuple of what it    *)
(* depends on (model, parameter version, input batch, dropout masks), a    *)
(* loss is a record naming the prediction it was computed from, and the    *)
(* parameters of a model are the number of optimizer steps applied to      *)
(* them.  Control flow, index arithmetic and collection contents are       *)
(* modelled exactly.                                                       *)
(***************************************************************************)
EXTENDS Integers, Sequences, FiniteSets, TLC

VARIABLES
    table,        \* rows of data/solubility.csv: the SMILES column, in file order
    cell,         \* the notebook cell that runs next
    error,        \* the exception that stopped the run, or "none"
    nullSeen,     \* the library calls that were handed a null molecule
    df,           \* the data frame after read_smiles_data and df.sample
    data_pyg,     \* the graph series after the filter cell
    df_train, df_test, data_train, data_test,
    hyper,        \* num_epochs, batch_size and the two loaders
    models,       \* per model: constructed, training flag, parameters, grads, init
    optimizer,    \* the model whose parameters the name `optimizer` is bound to
    fpc,          \* position inside fitGNN ("idle" outside a call)
    fit,          \* the locals of the running fitGNN call
    results,      \* notebook globals: train_losses, val_losses, the four MSEs, plots
    evalOut       \* last evaluation-mode prediction per (model, input batch)

vars == <<table, cell, error, nullSeen, df, data_pyg, df_train, df_test,
          data_train, data_test, hyper, models, optimizer, fpc, fit, results,
          evalOut>>

-----------------------------------------------------------------------------
(* Bounds of the model.                                                    *)

\* longest table whose rows are drawn freely from SmilesPool
MaxRows == 3
\* the patterned family of longer tables has MaxRows+1..MaxMidRows rows (enough
\* to pass the parameter cell) or MinBigRows..MaxBigRows rows (enough for a
\* second training batch)
MaxMidRows == 10
MinBigRows == 90
MaxBigRows == 93
\* epoch count used where the notebook sets num_epochs = 600
NumEpochs == 2
\* epoch counts tried by a direct call of fitGNN: 0..MaxEpochs
MaxEpochs == 2
\* loader sizes tried by a direct call of fitGNN: 0..MaxItems graphs
MaxItems == 3
\* rotations tried for the seeded shuffle: 0..MaxShift
MaxShift == 1

\* batch_size = 64 in the parameter cell
BatchSize == 64

NullMol == [null |-> TRUE]

-----------------------------------------------------------------------------
(* Chem.MolFromSmiles on the SMILES subset used here: the atoms C, N, O,   *)
(* the double-bond symbol "=" and the disconnection ".".  Consecutive      *)
(* atoms are bonded (begin = earlier atom, end = later atom); any other    *)
(* character, a dangling "=" or "." makes the string unparsable and the    *)
(* result is the null molecule.                                            *)

AtomicNum == [C |-> 6, N |-> 7, O |-> 8]

AtomSymbols == DOMAIN AtomicNum

RECURSIVE ParseFrom(_, _, _)
ParseFrom(s, i, st) ==
    IF i > Len(s)
    THEN IF st.pend = "none" /\ Len(st.atoms) > 0 THEN st ELSE [st EXCEPT !.ok = FALSE]
    ELSE LET c == s[i] IN
         IF c \in AtomSymbols
         THEN LET idx == Len(st.atoms)     \* 0-based atom index
                  bonded == st.prev >= 0 /\ st.pend # "dot"
                  order == IF st.pend = "double" THEN 2 ELSE 1
              IN  ParseFrom(s, i + 1,
                     [st EXCEPT !.atoms = Append(@, c),
                                !.bonds = IF bonded
                                          THEN Append(@, [begin |-> st.prev,
                                                          end |-> idx,
                                                          order |-> order])
                                          ELSE @,
                                !.prev = idx,
                                !.pend = "none"])
         ELSE IF c = "=" /\ st.prev >= 0 /\ st.pend = "none"
         THEN ParseFrom(s, i + 1, [st EXCEPT !.pend = "double"])
         ELSE IF c = "." /\ st.prev >= 0 /\ st.pend = "none"
         THEN ParseFrom(s, i + 1, [st EXCEPT !.pend = "dot"])
         ELSE [st EXCEPT !.ok = FALSE]

MolFromSmiles(smiles) ==
    LET st == ParseFrom(smiles, 1, [atoms |-> <<>>, bonds |-> <<>>, prev |-> -1,
                                    pend |-> "none", ok |-> TRUE])
    IN  IF st.ok THEN [null |-> FALSE, atoms |-> st.atoms, bonds |-> st.bonds]
        ELSE NullMol

smiles_to_mol(smiles) == MolFromSmiles(smiles)

\* The SMILES strings the tables are built from.
SmilesPool ==
    { <<"C">>,                     \* methane: one atom, no bond
      <<"C", "C">>,                \* ethane
      <<"C", "C", "O">>,           \* ethanol
      <<"C", "=", "O">>,           \* formaldehyde
      <<"N", ".", "O">>,           \* two fragments, no bond
      <<"X">>,                     \* not a SMILES string
      <<"C", "=">> }               \* dangling bond symbol

-----------------------------------------------------------------------------
(* int(n * 0.7) as Python computes it: n is converted to a double, the     *)
(* product with the double nearest to 0.7 (significand 0x16666666666666,   *)
(* exponent -53) is rounded to 53 significant bits, ties to even, and      *)
(* int() truncates.  Bit strings are sequences, least significant bit      *)
(* first: the 53-bit significand is wider than a 32-bit integer.           *)

\* bit i (0..52) of the significand 0x16666666666666 of the double 0.7
Mant07Bit(i) == IF i = 52 THEN 1 ELSE IF i % 4 \in {1, 2} THEN 1 ELSE 0

\* the bits of n * 0x16666666666666 from bit i upward
RECURSIVE MulBits(_, _, _)
MulBits(n, i, carry) ==
    IF i > 52 /\ carry = 0 THEN <<>>
    ELSE LET d == (IF i <= 52 THEN Mant07Bit(i) * n ELSE 0) + carry
         IN  <<d % 2>> \o MulBits(n, i + 1, d \div 2)

RECURSIVE IncBits(_)
IncBits(b) ==
    IF b = <<>> THEN <<1>>
    ELSE IF Head(b) = 0 THEN <<1>> \o Tail(b)
    ELSE <<0>> \o IncBits(Tail(b))

RECURSIVE BitsToInt(_)
BitsToInt(b) == IF b = <<>> THEN 0 ELSE Head(b) + 2 * BitsToInt(Tail(b))

\* round an exact product to 53 significant bits (round half to even);
\* the result is [sig, drop]: the value is sig * 2^(drop - 53)
RoundDouble(bits) ==
    LET L == Len(bits)
        drop == IF L > 53 THEN L - 53 ELSE 0
        kept == SubSeq(bits, drop + 1, L)
        guard == drop > 0 /\ bits[drop] = 1
        sticky == \E j \in 1..(drop - 1) : bits[j] = 1
        up == guard /\ (sticky \/ kept[1] = 1)
    IN  [sig |-> IF up THEN IncBits(kept) ELSE kept, drop |-> drop]

\* int(n * 0.7)
IntMul07(n) ==
    IF n = 0 THEN 0
    ELSE LET r == RoundDouble(MulBits(n, 0, 0))
         IN  BitsToInt(SubSeq(r.sig, 53 - r.drop + 1, Len(r.sig)))

-----------------------------------------------------------------------------
(* The featurizer.                                                         *)

\* smiles_to_fingerprint: the parsed molecule goes straight into
\* GetMorganFingerprintAsBitVect, which raises on a null molecule
smiles_to_fingerprint(smiles) ==
    LET mol == MolFromSmiles(smiles)
    IN  IF mol.null THEN [raised |-> TRUE, arg |-> mol]
        ELSE [raised |-> FALSE, nBits |-> 1024, radius |-> 3, of |-> mol.atoms]

\* read_smiles_data: one row per line of the file, with the fingerprint and
\* mol columns added; oid is the identity of the row (its line in the file)
read_smiles_data(path_data) ==
    [i \in 1..Len(path_data) |->
        [oid |-> i, SMILES |-> path_data[i], y |-> i,
         fingerprint |-> smiles_to_fingerprint(path_data[i]),
         mol |-> smiles_to_mol(path_data[i])]]

\* df.sample(frac=1, random_state=42).reset_index(drop=True): a permutation
\* of the rows fixed by the seed; modelled as a rotation by k
Sample(rows, k) ==
    LET n == Len(rows)
    IN  [i \in 1..n |-> rows[((i - 1 + k) % n) + 1]]

BondsAt(mol, a) == {k \in 1..Len(mol.bonds) : mol.bonds[k].begin = a \/ mol.bonds[k].end = a}

RECURSIVE SumOrders(_, _)
SumOrders(mol, ks) ==
    IF ks = {} THEN 0
    ELSE LET k == CHOOSE q \in ks : TRUE
         IN  mol.bonds[k].order + SumOrders(mol, ks \ {k})

DefaultValence == [C |-> 4, N |-> 3, O |-> 2]

\* the eight per-atom features of make_pyg, for atom a (0-based)
NodeFeatures(mol, a) ==
    LET sym == mol.atoms[a + 1]
        bs == BondsAt(mol, a)
        val == SumOrders(mol, bs)
        double == \E k \in bs : mol.bonds[k].order = 2
    IN  << AtomicNum[sym],                    \* GetAtomicNum
           IF double THEN 3 ELSE 4,           \* GetHybridization: SP2, SP3
           Cardinality(bs),                   \* GetDegree
           0,                                 \* GetIsAromatic
           DefaultValence[sym] - val,         \* GetTotalNumHs
           0,                                 \* GetFormalCharge
           0,                                 \* GetChiralTag
           val >>                             \* GetExplicitValence

\* an edge list that holds both directions of every bond
EdgePairsBoth(mol) ==
    [k \in 1..(2 * Len(mol.bonds)) |->
        IF k <= Len(mol.bonds) THEN <<mol.bonds[k].begin, mol.bonds[k].end>>
        ELSE <<mol.bonds[k - Len(mol.bonds)].end, mol.bonds[k - Len(mol.bonds)].begin>>]

\* edge_indices.append((i, j)) for every bond, in bond order
EdgePairs(mol) == [k \in 1..Len(mol.bonds) |-> <<mol.bonds[k].begin, mol.bonds[k].end>>]

\* edge_features.append([bond_type, is_conjugated, is_in_ring, bond_stereo])
EdgeFeatures(mol) == [k \in 1..Len(mol.bonds) |-> <<mol.bonds[k].order, 0, 0, 0>>]

\* tch.tensor(edge_indices).t(): a list of nb pairs becomes a 2 x nb tensor;
\* the empty list becomes a tensor of shape (0,), which .t() leaves alone
EdgeIndexTensor(pairs) ==
    [shape |-> IF Len(pairs) = 0 THEN <<0>> ELSE <<2, Len(pairs)>>, pairs |-> pairs]

EdgeAttrTensor(rows) ==
    [shape |-> IF Len(rows) = 0 THEN <<0>> ELSE <<Len(rows), 4>>, rows |-> rows]

make_pyg(row) ==
    LET mol == row.mol
    IN  [oid |-> row.oid,
         x |-> [a \in 1..Len(mol.atoms) |-> NodeFeatures(mol, a - 1)],
         edge_index |-> EdgeIndexTensor(EdgePairs(mol)),
         edge_attr |-> EdgeAttrTensor(EdgeFeatures(mol)),
         y |-> row.y,
         smiles |-> row.SMILES]

\* a cleaning cell that filters nothing
KeepGraphAll(g) == TRUE

\* the filter of the cleaning cell: lambda x: len(x.edge_index.shape) != 1
KeepGraph(g) == Len(g.edge_index.shape) # 1

\* s[keep]: the elements of s whose flag is set, in their order
SelectSeq2(s, keep) ==
    LET K == {i \in 1..Len(s) : keep[i]}
    IN  [j \in 1..Cardinality(K) |->
            s[CHOOSE i \in K : Cardinality({k \in K : k <= i}) = j]]

-----------------------------------------------------------------------------
(* The models, the loaders and the forward pass.                           *)

Models == {"conv", "atten"}

\* the layers GNN_conv.__init__ and GNN_atten.__init__ create, with their type
Layers ==
    [conv  |-> [conv1 |-> "GCNConv", conv2 |-> "GCNConv", conv3 |-> "GCNConv",
                fc3 |-> "Linear", relu |-> "ReLU", dropout |-> "Dropout"],
     atten |-> [conv1 |-> "GATConv", conv2 |-> "GATConv", conv3 |-> "GATConv",
                fc3 |-> "Linear", relu |-> "ReLU", dropout |-> "Dropout"]]

LayerNames == {"conv1", "conv2", "conv3", "fc3", "relu", "dropout"}

\* weights_init(m): the initialisation scheme of a layer of type `kind`
\* after the call, given the scheme it had before
weights_init(kind, scheme) ==
    IF kind \in {"GCNConv", "GATConv"} THEN "xavier_uniform"
    ELSE IF kind = "Linear" THEN "xavier_uniform"
    ELSE scheme

\* GNN_conv(input_dim) / GNN_atten(input_dim): a fresh module is in training
\* mode, its layers carry the library's own initialisation, and no gradient
\* has been computed
NewModel ==
    [built |-> TRUE, training |-> TRUE, params |-> 0, grads |-> {},
     winit |-> [l \in LayerNames |-> "library_default"]]

NoModel ==
    [built |-> FALSE, training |-> FALSE, params |-> 0, grads |-> {},
     winit |-> [l \in LayerNames |-> "none"]]

\* DataLoader(dataset, batch_size=batch_size, shuffle=True) over n graphs
DataLoader(n, batch_size) == [n |-> n, batch_size |-> batch_size]

\* len(loader): the number of batches of one pass
LoaderLen(loader) == (loader.n + loader.batch_size - 1) \div loader.batch_size

Batches(loader) == 1..LoaderLen(loader)

DropMasks == {"mask_a", "mask_b"}

\* a dropout that ignores the mode of the module
DropoutAlways(training, mask) == mask

\* nn.Dropout: draws a mask in training mode, is the identity in evaluation mode
Dropout(training, mask) == IF training THEN mask ELSE "identity"

\* forward(x, edge_index, batch) of GNN_conv and GNN_atten: three graph layers,
\* each followed by relu and self.dropout, then mean pooling and fc3
Forward(m, mstate, x, masks) ==
    [model |-> m, params |-> mstate.params, input |-> x,
     drop |-> << Dropout(mstate.training, masks[1]),
                 Dropout(mstate.training, masks[2]),
                 Dropout(mstate.training, masks[3]) >>]

NoOutput == [model |-> "none", params |-> 0, input |-> 0, drop |-> <<>>]

NoLoss == [model |-> "none", epoch |-> -1, batch |-> 0, l1 |-> FALSE]

\* criterion(outputs, batch.y): the mean squared error of this batch
Criterion(outputs, epoch) ==
    [model |-> outputs.model, epoch |-> epoch, batch |-> outputs.input, l1 |-> FALSE]

\* loss += l1_lambda * l1_norm
AddL1(loss) == [loss EXCEPT !.l1 = TRUE]

\* sum(items) / len(items)
Average(items, epoch) == [epoch |-> epoch, n |-> Len(items), of |-> {items[i] : i \in 1..Len(items)}]

\* a history that is assigned instead of appended to
AppendLossReplace(history, avg) == <<avg>>

\* history.append(avg)
AppendLoss(history, avg) == Append(history, avg)

NoFit ==
    [gnn1_model |-> "none", t_loader |-> DataLoader(0, 1), v_loader |-> DataLoader(0, 1),
     num_epochs |-> 0, optimizer |-> "none", epoch |-> 0, served |-> {}, batch |-> 0,
     train_loss_items |-> <<>>, val_loss_items |-> <<>>,
     train_losses |-> <<>>, val_losses |-> <<>>,
     outputs |-> NoOutput, loss |-> NoLoss]

\* the frame of a call fitGNN(gnn1_model, t_loader, v_loader, num_epochs, batch_size,
\* optimizer, criterion)
CallFit(m, t_loader, v_loader, num_epochs, opt) ==
    [NoFit EXCEPT !.gnn1_model = m, !.t_loader = t_loader, !.v_loader = v_loader,
                  !.num_epochs = num_epochs, !.optimizer = opt]

NoHyper ==
    [set |-> FALSE, num_epochs |-> 0, batch_size |-> 1,
     t_loader |-> DataLoader(0, 1), v_loader |-> DataLoader(0, 1)]

NoResults ==
    [train_losses |-> <<>>, val_losses |-> <<>>,
     mse |-> [k \in {"SV", "RF", "conv", "atten"} |-> [set |-> FALSE, params |-> 0, n |-> 0]],
     plots |-> <<>>, bar |-> <<>>, served |-> {}, all_preds |-> {}]

-----------------------------------------------------------------------------
(* Initial states: the notebook about to run its first data cell on some   *)
(* table, or a direct call of fitGNN with loaders and an epoch count of    *)
(* the caller's choice.                                                    *)

\* every table of at most MaxRows rows drawn from SmilesPool
SmallTables == UNION {[1..n -> SmilesPool] : n \in 0..MaxRows}

\* longer tables: ethane and ethanol alternate; the first row is optionally methane
BigTable(n, first) ==
    [i \in 1..n |-> IF i = 1 /\ first # <<>> THEN first
                    ELSE IF i % 2 = 0 THEN <<"C", "C">> ELSE <<"C", "C", "O">>]

BigSizes == ((MaxRows + 1)..MaxMidRows) \cup (MinBigRows..MaxBigRows)

BigTables == {BigTable(n, f) : n \in BigSizes, f \in {<<>>, <<"C">>}}

Tables == SmallTables \cup BigTables

dataVars == <<table, nullSeen, df, data_pyg, df_train, df_test, data_train, data_test>>

InitData ==
    /\ nullSeen = {}
    /\ df = <<>>
    /\ data_pyg = <<>>
    /\ df_train = <<>>
    /\ df_test = <<>>
    /\ data_train = <<>>
    /\ data_test = <<>>
    /\ error = "none"
    /\ results = NoResults
    /\ evalOut = {}

InitNotebook ==
    /\ table \in Tables
    /\ cell = "load"
    /\ InitData
    /\ hyper = NoHyper
    /\ models = [m \in Models |-> NoModel]
    /\ optimizer = "none"
    /\ fpc = "idle"
    /\ fit = NoFit

InitDirect ==
    /\ table = <<>>
    /\ cell = "direct"
    /\ InitData
    /\ \E ne \in 0..MaxEpochs, bs \in 1..2, tn \in 0..MaxItems, vn \in 0..MaxItems :
          hyper = [set |-> TRUE, num_epochs |-> ne, batch_size |-> bs,
                   t_loader |-> DataLoader(tn, bs), v_loader |-> DataLoader(vn, bs)]
    /\ models = [m \in Models |-> IF m = "conv" THEN NewModel ELSE NoModel]
    /\ optimizer = "conv"
    /\ fpc = "init"
    /\ fit = CallFit("conv", hyper.t_loader, hyper.v_loader, hyper.num_epochs, "conv")

Init == InitNotebook \/ InitDirect

-----------------------------------------------------------------------------
(* The data cells.                                                         *)

Fail(exc) ==
    /\ error' = exc
    /\ cell' = "failed"

\* df = read_smiles_data('data/solubility.csv'); df = df.sample(...).reset_index(...)
\* The fingerprint column is computed first, row by row: the first unparsable
\* row hands a null molecule to GetMorganFingerprintAsBitVect, which raises.
LoadCell ==
    /\ cell = "load"
    /\ LET rows == read_smiles_data(table)
       IN  IF \E i \in 1..Len(rows) : rows[i].fingerprint.raised
           THEN /\ nullSeen' = nullSeen \cup {"GetMorganFingerprintAsBitVect"}
                /\ Fail("ArgumentError")
                /\ UNCHANGED df
           ELSE /\ \E k \in 0..MaxShift :
                      /\ k = 0 \/ k < Len(rows)
                      /\ df' = Sample(rows, k)
                /\ cell' = "pyg"
                /\ UNCHANGED <<nullSeen, error>>
    /\ UNCHANGED <<table, data_pyg, df_train, df_test, data_train, data_test, hyper,
                   models, optimizer, fpc, fit, results, evalOut>>

\* data_pyg = df.apply(make_pyg, axis=1); keep len(edge_index.shape) != 1; reset_index
PygCell ==
    /\ cell = "pyg"
    /\ LET graphs == [i \in 1..Len(df) |-> make_pyg(df[i])]
           keep == [i \in 1..Len(df) |-> KeepGraph(graphs[i])]
       IN  data_pyg' = SelectSeq2(graphs, keep)
    /\ cell' = "split"
    /\ UNCHANGED <<table, nullSeen, df, df_train, df_test, data_train, data_test, error,
                   hyper, models, optimizer, fpc, fit, results, evalOut>>

\* df.iloc[:n]
Iloc(s, n) == SubSeq(s, 1, n)

\* df.drop(df_train.index): the rows whose index label is not one of df_train's;
\* after reset_index the label of a row is its position
DropIndex(s, n) == SubSeq(s, n + 1, Len(s))

\* a mask that excludes nothing
NotIsinNothing(s, other) == s

\* data_pyg[~data_pyg.isin(data_train)]: the graphs that are not (by object
\* identity) among those of data_train, in their order
NotIsin(s, other) ==
    LET ids == {other[i].oid : i \in 1..Len(other)}
    IN  SelectSeq2(s, [i \in 1..Len(s) |-> s[i].oid \notin ids])

\* the split cell
SplitCell ==
    /\ cell = "split"
    /\ LET n_df == IntMul07(Len(df))
           n_train == IntMul07(Len(data_pyg))
       IN  /\ df_train' = Iloc(df, n_df)
           /\ df_test' = DropIndex(df, n_df)
           /\ data_train' = Iloc(data_pyg, n_train)
           /\ data_test' = NotIsin(data_pyg, Iloc(data_pyg, n_train))
    /\ cell' = "rf"
    /\ UNCHANGED <<table, nullSeen, df, data_pyg, error, hyper, models, optimizer, fpc,
                   fit, results, evalOut>>

-----------------------------------------------------------------------------
(* The classical regressors and the parameter cell.                        *)

\* model.fit(X_train, y_train); model.predict(X_test); mean_squared_error:
\* scikit-learn rejects an empty sample
Regress(name, nextCell) ==
    IF Len(df_train) = 0 \/ Len(df_test) = 0
    THEN /\ Fail("ValueError")
         /\ UNCHANGED results
    ELSE /\ results' = [results EXCEPT !.mse[name] =
                           [set |-> TRUE, params |-> 0, n |-> Len(df_test)]]
         /\ cell' = nextCell
         /\ UNCHANGED error

RFCell ==
    /\ cell = "rf"
    /\ Regress("RF", "svr")
    /\ UNCHANGED <<dataVars, hyper, models, optimizer, fpc, fit, evalOut>>

SVRCell ==
    /\ cell = "svr"
    /\ Regress("SV", "params")
    /\ UNCHANGED <<dataVars, hyper, models, optimizer, fpc, fit, evalOut>>

\* input_dim = data_train.iloc[5].x.size(1); num_epochs; batch_size; the loaders
ParamsCell ==
    /\ cell = "params"
    /\ IF Len(data_train) < 6
       THEN /\ Fail("IndexError")
            /\ UNCHANGED hyper
       ELSE /\ hyper' = [set |-> TRUE, num_epochs |-> NumEpochs, batch_size |-> BatchSize,
                         t_loader |-> DataLoader(Len(data_train), BatchSize),
                         v_loader |-> DataLoader(Len(data_test), BatchSize)]
            /\ cell' = "conv_fit"
            /\ UNCHANGED error
    /\ UNCHANGED <<dataVars, models, optimizer, fpc, fit, results, evalOut>>

Cells ==
    [conv  |-> [fit |-> "conv_fit", eval |-> "conv_eval", loop |-> "conv_eval_loop",
                next |-> "atten_fit"],
     atten |-> [fit |-> "atten_fit", eval |-> "atten_eval", loop |-> "atten_eval_loop",
                next |-> "bar"]]

\* a fit cell that keeps an optimizer that is already bound
FitCellStaleOptimizer(m) ==
    /\ cell = Cells[m].fit
    /\ fpc = "idle"
    /\ models' = [models EXCEPT ![m] = NewModel]
    /\ optimizer' = IF optimizer = "none" THEN m ELSE optimizer
    /\ fit' = CallFit(m, hyper.t_loader, hyper.v_loader, hyper.num_epochs, optimizer')
    /\ fpc' = "init"
    /\ UNCHANGED <<dataVars, cell, error, hyper, results, evalOut>>

\* model = GNN_x(input_dim).to(device); optimizer = optim.AdamW(model.parameters(), ...);
\* ... = fitGNN(model, t_loader, v_loader, num_epochs, batch_size, optimizer, criterion)
FitCell(m) ==
    /\ cell = Cells[m].fit
    /\ fpc = "idle"
    /\ models' = [models EXCEPT ![m] = NewModel]
    /\ optimizer' = m
    /\ fit' = CallFit(m, hyper.t_loader, hyper.v_loader, hyper.num_epochs, m)
    /\ fpc' = "init"
    /\ UNCHANGED <<dataVars, cell, error, hyper, results, evalOut>>

\* the assignment of fitGNN's result to the notebook's names
FitCellReturn(m) ==
    /\ cell = Cells[m].fit
    /\ fpc = "returned"
    /\ results' = [results EXCEPT !.train_losses = fit.train_losses,
                                  !.val_losses = fit.val_losses]
    /\ fpc' = "idle"
    /\ cell' = Cells[m].eval
    /\ UNCHANGED <<dataVars, error, hyper, models, optimizer, fit, evalOut>>

-----------------------------------------------------------------------------
(* fitGNN, one action per statement.                                       *)

fitFrame == <<dataVars, cell, error, hyper, optimizer, results>>

SetTrain(mstate) == [mstate EXCEPT !.training = TRUE]

\* an eval() that leaves the mode as it was
SetEvalNoop(mstate) == mstate

SetEval(mstate) == [mstate EXCEPT !.training = FALSE]

\* a zero_grad that clears nothing
ZeroGradNoop(mstate) == mstate

ZeroGrad(mstate) == [mstate EXCEPT !.grads = {}]

\* loss.backward(): the gradient of this loss is added to the stored gradients
BackwardInto(mstate, loss) == [mstate EXCEPT !.grads = @ \cup {loss}]

\* two updates where one is meant
StepParamsTwice(mstate) == [mstate EXCEPT !.params = @ + 2]

\* optimizer.step(): one AdamW update of the parameters the optimizer holds
StepParams(mstate) == [mstate EXCEPT !.params = @ + 1]

\* train_losses = []; val_losses = []; the progress bars
FitInit ==
    /\ fpc = "init"
    /\ fit' = [fit EXCEPT !.train_losses = <<>>, !.val_losses = <<>>, !.epoch = 0]
    /\ fpc' = "epoch_head"
    /\ UNCHANGED <<fitFrame, models, evalOut>>

\* a loop head that runs one epoch too many
EpochHeadInclusive ==
    /\ fpc = "epoch_head"
    /\ fpc' = IF fit.epoch <= fit.num_epochs THEN "train_mode" ELSE "return"
    /\ UNCHANGED <<fitFrame, models, fit, evalOut>>

\* for epoch in range(num_epochs):
EpochHead ==
    /\ fpc = "epoch_head"
    /\ fpc' = IF fit.epoch < fit.num_epochs THEN "train_mode" ELSE "return"
    /\ UNCHANGED <<fitFrame, models, fit, evalOut>>

\* gnn1_model.train(); train_loss_items = []
TrainMode ==
    /\ fpc = "train_mode"
    /\ models' = [models EXCEPT ![fit.gnn1_model] = SetTrain(@)]
    /\ fit' = [fit EXCEPT !.train_loss_items = <<>>, !.served = {}]
    /\ fpc' = "t_iter"
    /\ UNCHANGED <<fitFrame, evalOut>>

\* for batch in t_loader: the loader shuffles, so any batch not yet served comes next
TrainIter ==
    /\ fpc = "t_iter"
    /\ IF fit.served = Batches(fit.t_loader)
       THEN /\ fpc' = "avg_train"
            /\ UNCHANGED fit
       ELSE /\ \E b \in Batches(fit.t_loader) \ fit.served :
                  fit' = [fit EXCEPT !.batch = b, !.served = @ \cup {b}]
            /\ fpc' = "zero_grad"
    /\ UNCHANGED <<fitFrame, models, evalOut>>

\* optimizer.zero_grad()
ZeroGradStep ==
    /\ fpc = "zero_grad"
    /\ models' = [models EXCEPT ![fit.optimizer] = ZeroGrad(@)]
    /\ fpc' = "forward"
    /\ UNCHANGED <<fitFrame, fit, evalOut>>

\* outputs = gnn1_model(batch.x.float(), batch.edge_index, batch.batch)
ForwardPass ==
    /\ fpc = "forward"
    /\ \E masks \in [1..3 -> DropMasks] :
          fit' = [fit EXCEPT !.outputs =
                     Forward(fit.gnn1_model, models[fit.gnn1_model], fit.batch, masks)]
    /\ fpc' = "criterion"
    /\ UNCHANGED <<fitFrame, models, evalOut>>

\* loss = criterion(outputs, batch.y)
CriterionStep ==
    /\ fpc = "criterion"
    /\ fit' = [fit EXCEPT !.loss = Criterion(fit.outputs, fit.epoch)]
    /\ fpc' = "l1"
    /\ UNCHANGED <<fitFrame, models, evalOut>>

\* l1_norm = sum(p.abs().sum() for p in gnn1_model.parameters()); loss += l1_lambda * l1_norm
L1Penalty ==
    /\ fpc = "l1"
    /\ fit' = [fit EXCEPT !.loss = AddL1(@)]
    /\ fpc' = "backward"
    /\ UNCHANGED <<fitFrame, models, evalOut>>

\* loss.backward()
Backward ==
    /\ fpc = "backward"
    /\ models' = [models EXCEPT ![fit.gnn1_model] = BackwardInto(@, fit.loss)]
    /\ fpc' = "step"
    /\ UNCHANGED <<fitFrame, fit, evalOut>>

\* optimizer.step()
OptimizerStep ==
    /\ fpc = "step"
    /\ models' = [models EXCEPT ![fit.optimizer] = StepParams(@)]
    /\ fpc' = "record"
    /\ UNCHANGED <<fitFrame, fit, evalOut>>

\* train_loss_items.append(loss.item())
RecordLoss ==
    /\ fpc = "record"
    /\ fit' = [fit EXCEPT !.train_loss_items = Append(@, fit.loss)]
    /\ fpc' = "t_iter"
    /\ UNCHANGED <<fitFrame, models, evalOut>>

\* the ZeroDivisionError of sum(items) / len(items) leaves fitGNN
Raise ==
    /\ fpc' = "raised"
    /\ error' = "ZeroDivisionError"
    /\ cell' = IF cell = "direct" THEN cell ELSE "failed"

\* avg_train_loss = sum(train_loss_items) / len(train_loss_items)
\* train_losses.append(avg_train_loss)
AvgTrain ==
    /\ fpc = "avg_train"
    /\ IF Len(fit.train_loss_items) = 0
       THEN /\ Raise
            /\ UNCHANGED fit
       ELSE /\ fit' = [fit EXCEPT !.train_losses =
                          AppendLoss(@, Average(fit.train_loss_items, fit.epoch))]
            /\ fpc' = "eval_mode"
            /\ UNCHANGED <<error, cell>>
    /\ UNCHANGED <<dataVars, hyper, optimizer, results, models, evalOut>>

\* gnn1_model.eval(); val_loss_items = []
EvalMode ==
    /\ fpc = "eval_mode"
    /\ models' = [models EXCEPT ![fit.gnn1_model] = SetEval(@)]
    /\ fit' = [fit EXCEPT !.val_loss_items = <<>>, !.served = {}]
    /\ fpc' = "v_iter"
    /\ UNCHANGED <<fitFrame, evalOut>>

\* with tch.no_grad(): for val_batch in v_loader:
ValIter ==
    /\ fpc = "v_iter"
    /\ IF fit.served = Batches(fit.v_loader)
       THEN /\ fpc' = "avg_val"
            /\ UNCHANGED fit
       ELSE /\ \E b \in Batches(fit.v_loader) \ fit.served :
                  fit' = [fit EXCEPT !.batch = b, !.served = @ \cup {b}]
            /\ fpc' = "v_forward"
    /\ UNCHANGED <<fitFrame, models, evalOut>>

\* an evaluation-mode prediction is remembered with the place that made it
Remember(out, where) == evalOut \cup {[pred |-> out, where |-> where]}

\* val_outputs = gnn1_model(val_batch.x.float(), val_batch.edge_index, val_batch.batch)
ValForward ==
    /\ fpc = "v_forward"
    /\ \E masks \in [1..3 -> DropMasks] :
          LET out == Forward(fit.gnn1_model, models[fit.gnn1_model], fit.batch, masks)
          IN  /\ fit' = [fit EXCEPT !.outputs = out]
              /\ evalOut' = IF models[fit.gnn1_model].training THEN evalOut
                            ELSE Remember(out, "fitGNN")
    /\ fpc' = "v_criterion"
    /\ UNCHANGED <<fitFrame, models>>

\* val_loss = criterion(val_outputs, val_batch.y); val_loss_items.append(val_loss.item())
ValCriterion ==
    /\ fpc = "v_criterion"
    /\ fit' = [fit EXCEPT !.loss = Criterion(fit.outputs, fit.epoch),
                          !.val_loss_items = Append(@, Criterion(fit.outputs, fit.epoch))]
    /\ fpc' = "v_iter"
    /\ UNCHANGED <<fitFrame, models, evalOut>>

\* a validation average that is guarded against the empty list
AvgValGuarded ==
    /\ fpc = "avg_val"
    /\ fit' = [fit EXCEPT !.val_losses =
                  AppendLoss(@, Average(fit.val_loss_items, fit.epoch)),
                          !.epoch = @ + 1]
    /\ fpc' = "epoch_head"
    /\ UNCHANGED <<dataVars, hyper, optimizer, results, models, evalOut, error, cell>>

\* avg_val_loss = sum(val_loss_items) / len(val_loss_items)
\* val_losses.append(avg_val_loss); the loop goes on to the next epoch
AvgVal ==
    /\ fpc = "avg_val"
    /\ IF Len(fit.val_loss_items) = 0
       THEN /\ Raise
            /\ UNCHANGED fit
       ELSE /\ fit' = [fit EXCEPT !.val_losses =
                          AppendLoss(@, Average(fit.val_loss_items, fit.epoch)),
                                  !.epoch = @ + 1]
            /\ fpc' = "epoch_head"
            /\ UNCHANGED <<error, cell>>
    /\ UNCHANGED <<dataVars, hyper, optimizer, results, models, evalOut>>

\* return gnn1_model, train_losses, val_losses
FitReturn ==
    /\ fpc = "return"
    /\ fpc' = "returned"
    /\ UNCHANGED <<fitFrame, models, fit, evalOut>>

-----------------------------------------------------------------------------
(* The evaluation cells and the bar chart.                                 *)

\* model.eval(); all_preds = []; all_labels = []
EvalCellBegin(m) ==
    /\ cell = Cells[m].eval
    /\ models' = [models EXCEPT ![m] = SetEval(@)]
    /\ results' = [results EXCEPT !.served = {}, !.all_preds = {}]
    /\ cell' = Cells[m].loop
    /\ UNCHANGED <<dataVars, error, hyper, optimizer, fpc, fit, evalOut>>

\* for v_batch in v_loader: test_outputs = model(...); all_preds.extend(...)
EvalCellBatch(m) ==
    /\ cell = Cells[m].loop
    /\ results.served # Batches(hyper.v_loader)
    /\ \E b \in Batches(hyper.v_loader) \ results.served, masks \in [1..3 -> DropMasks] :
          LET out == Forward(m, models[m], b, masks)
          IN  /\ results' = [results EXCEPT !.served = @ \cup {b},
                                            !.all_preds = @ \cup {out}]
              /\ evalOut' = IF models[m].training THEN evalOut
                            ELSE Remember(out, "cell")
    /\ UNCHANGED <<dataVars, cell, error, hyper, models, optimizer, fpc, fit>>

\* gnn_x_mse = mean_squared_error(all_labels_tensor, all_preds_tensor);
\* plot_history(train_losses, val_losses, name)
EvalCellEnd(m) ==
    /\ cell = Cells[m].loop
    /\ results.served = Batches(hyper.v_loader)
    /\ results' = [results EXCEPT
                      !.mse[m] = [set |-> TRUE, params |-> models[m].params,
                                  n |-> Cardinality(results.all_preds)],
                      !.plots = Append(@, [name |-> m,
                                           train_losses |-> results.train_losses,
                                           val_losses |-> results.val_losses])]
    /\ cell' = Cells[m].next
    /\ UNCHANGED <<dataVars, error, hyper, models, optimizer, fpc, fit, evalOut>>

\* plt.bar(["SVM", "Random Forest", "Conv. GNN", "Atten. GNN"], [SV_mse, RF_mse, ...])
BarCell ==
    /\ cell = "bar"
    /\ results' = [results EXCEPT !.bar = <<results.mse["SV"], results.mse["RF"],
                                           results.mse["conv"], results.mse["atten"]>>]
    /\ cell' = "done"
    /\ UNCHANGED <<dataVars, error, hyper, models, optimizer, fpc, fit, evalOut>>

Next ==
    \/ LoadCell
    \/ PygCell
    \/ SplitCell
    \/ RFCell
    \/ SVRCell
    \/ ParamsCell
    \/ \E m \in Models : FitCell(m)
    \/ \E m \in Models : FitCellReturn(m)
    \/ FitInit
    \/ EpochHead
    \/ TrainMode
    \/ TrainIter
    \/ ZeroGradStep
    \/ ForwardPass
    \/ CriterionStep
    \/ L1Penalty
    \/ Backward
    \/ OptimizerStep
    \/ RecordLoss
    \/ AvgTrain
    \/ EvalMode
    \/ ValIter
    \/ ValForward
    \/ ValCriterion
    \/ AvgVal
    \/ FitReturn
    \/ \E m \in Models : EvalCellBegin(m)
    \/ \E m \in Models : EvalCellBatch(m)
    \/ \E m \in Models : EvalCellEnd(m)
    \/ BarCell

Spec == Init /\ [][Next]_vars

-----------------------------------------------------------------------------
(* Properties.                                                             *)

Oids(s) == {s[i].oid : i \in 1..Len(s)}

\* the cleaning cell has run
PygDone == cell \notin {"load", "pyg", "direct"} /\ error # "ArgumentError"

\* the split cell has run
SplitDone == PygDone /\ cell # "split"

\* a call of fitGNN is running or has ended
InFit == fpc # "idle"

TLen == LoaderLen(fit.t_loader)

VLen == LoaderLen(fit.v_loader)

EpochsInOrder(history) == \A i \in 1..Len(history) : history[i].epoch = i - 1

\* C1: with num_epochs >= 1 and non-empty loaders, fitGNN returns two loss
\* histories of exactly num_epochs entries; after k completed epochs both
\* hold exactly k entries, the entry of epoch i at position i.
C1_LossHistoryLength ==
    (InFit /\ fit.num_epochs >= 1 /\ TLen > 0 /\ VLen > 0) =>
        /\ fpc \in {"epoch_head", "return", "returned"} =>
              /\ Len(fit.train_losses) = fit.epoch
              /\ Len(fit.val_losses) = fit.epoch
        /\ fpc \in {"return", "returned"} =>
              /\ Len(fit.train_losses) = fit.num_epochs
              /\ Len(fit.val_losses) = fit.num_epochs
        /\ EpochsInOrder(fit.train_losses)
        /\ EpochsInOrder(fit.val_losses)

C1_Witness ==
    /\ fpc = "returned"
    /\ fit.num_epochs >= 2
    /\ Len(fit.train_losses) = fit.num_epochs
    /\ Len(fit.val_losses) = fit.num_epochs
    /\ TLen > 0 /\ VLen > 0

ZeroBond(mol) == Len(mol.bonds) = 0

\* C2: a molecule without bonds is not in data_pyg, hence not in data_train,
\* data_test or a loader, while its row stays in df_train or df_test; every
\* graph left in data_pyg has at least one bond.
C2_ZeroBondExcluded ==
    PygDone =>
        /\ \A i \in 1..Len(df) :
              ZeroBond(df[i].mol) =>
                  /\ df[i].oid \notin Oids(data_pyg)
                  /\ SplitDone =>
                        /\ df[i].oid \notin Oids(data_train) \cup Oids(data_test)
                        /\ df[i].oid \in Oids(df_train) \cup Oids(df_test)
        /\ \A j \in 1..Len(data_pyg) : Len(data_pyg[j].edge_index.pairs) >= 1
        /\ SplitDone => Oids(data_train) \cup Oids(data_test) \subseteq Oids(data_pyg)
        /\ (hyper.set /\ cell # "direct") =>
              /\ hyper.t_loader.n = Len(data_train)
              /\ hyper.v_loader.n = Len(data_test)

C2_Witness ==
    /\ cell = "conv_fit"
    /\ fpc = "forward"
    /\ \E i \in 1..Len(df) :
          /\ ZeroBond(df[i].mol)
          /\ df[i].oid \in Oids(df_train)
          /\ df[i].oid \notin Oids(data_pyg)

Parsable(t) == {i \in 1..Len(t) : ~MolFromSmiles(t[i]).null}

\* C3: an unparsable SMILES string yields a null molecule, the assembly drops
\* such rows, no library call downstream is handed a null molecule, and the
\* notebook goes on with the remaining rows.
C3_NullRowsDropped ==
    /\ nullSeen = {}
    /\ cell \notin {"load", "direct"} =>
          /\ error # "ArgumentError"
          /\ Oids(df) = Parsable(table)

\* C4: for a parsed molecule with at least one bond the graph has one node
\* per atom, one (begin, end) pair per bond in bond order and no reverse
\* pair, one edge-feature row per pair in the same order, and every edge
\* index is a node index.
C4_GraphMatchesMolecule ==
    PygDone =>
        /\ \A i \in 1..Len(df) : ~ZeroBond(df[i].mol) => df[i].oid \in Oids(data_pyg)
        /\ \A j \in 1..Len(data_pyg) :
              LET g == data_pyg[j]
                  mol == MolFromSmiles(g.smiles)
                  nb == Len(mol.bonds)
              IN  /\ Len(g.x) = Len(mol.atoms)
                  /\ Len(g.edge_index.pairs) = nb
                  /\ g.edge_index.shape = <<2, nb>>
                  /\ Len(g.edge_attr.rows) = nb
                  /\ \A k \in 1..nb :
                        /\ g.edge_index.pairs[k] = <<mol.bonds[k].begin, mol.bonds[k].end>>
                        /\ g.edge_attr.rows[k][1] = mol.bonds[k].order
                        /\ Len(g.edge_attr.rows[k]) = 4
                  /\ \A k \in 1..Len(g.edge_index.pairs) :
                        /\ g.edge_index.pairs[k][1] \in 0..(Len(g.x) - 1)
                        /\ g.edge_index.pairs[k][2] \in 0..(Len(g.x) - 1)

C4_Witness ==
    /\ PygDone
    /\ \E j \in 1..Len(data_pyg) :
          /\ Len(data_pyg[j].edge_index.pairs) = 2
          /\ Len(data_pyg[j].x) = 3

Initialisable == {"GCNConv", "GATConv", "Linear"}

\* C5: for each of the two models of the notebook, weights_init has been
\* applied to its graph layers and its linear layer before its first
\* optimizer step.
C5_XavierBeforeFirstStep ==
    \A m \in Models :
        (cell # "direct" /\ models[m].params > 0) =>
            \A l \in LayerNames :
                Layers[m][l] \in Initialisable =>
                    models[m].winit[l] = weights_init(Layers[m][l], models[m].winit[l])

\* C6: each path is split at floor(0.7 * size): the training partition is
\* the first floor(0.7 * size) items in shuffled order, the test partition
\* the rest in order; the graph path is split after the filter.
C6_SplitAtSeventyPercent ==
    SplitDone =>
        /\ Len(df_train) = (7 * Len(df)) \div 10
        /\ Len(data_train) = (7 * Len(data_pyg)) \div 10
        /\ df_train \o df_test = df
        /\ data_train \o data_test = data_pyg
        /\ Oids(df_train) \cap Oids(df_test) = {}
        /\ Oids(data_train) \cap Oids(data_test) = {}
        /\ \A j \in 1..Len(data_pyg) : KeepGraph(data_pyg[j])

SameInput(a, b) ==
    /\ a.pred.model = b.pred.model
    /\ a.pred.params = b.pred.params
    /\ a.pred.input = b.pred.input

EvalDeterministic ==
    /\ \A a, b \in evalOut : SameInput(a, b) => a.pred = b.pred
    /\ \A a \in evalOut : \A i \in 1..3 : a.pred.drop[i] = "identity"
    /\ fpc = "criterion" => \A i \in 1..3 : fit.outputs.drop[i] \in DropMasks

EvalIdempotent ==
    \A m \in Models :
        (models[m].built /\ ~models[m].training /\ cell = Cells[m].eval /\ cell' # cell)
            => models'[m] = models[m]

\* C7: in evaluation mode two forward passes on the same input, with the
\* same parameters, give the same prediction: dropout acts in training mode
\* only, and eval() on a model already in evaluation mode changes nothing.
C7_EvalModeDeterministic == []EvalDeterministic /\ [][EvalIdempotent]_vars

C7_Witness ==
    \E a, b \in evalOut :
        /\ SameInput(a, b)
        /\ a.where = "fitGNN"
        /\ b.where = "cell"

TrainPhase == {"t_iter", "zero_grad", "forward", "criterion", "l1", "backward", "step",
               "record", "avg_train"}

ValPhase == {"v_iter", "v_forward", "v_criterion", "avg_val"}

\* C8: in every epoch the model is put in training mode first; each training
\* batch is served once and gets zero_grad, forward, MSE, L1, backward, one
\* optimizer step and its loss recorded, in this order; the training average
\* is appended, then the model is put in evaluation mode, then the
\* validation batches run; the next epoch starts after the validation
\* average of this one is appended.
C8_EpochOrder ==
    InFit =>
        LET m == fit.gnn1_model
            ms == models[m]
        IN  /\ fpc \in TrainPhase =>
                  /\ ms.training
                  /\ Len(fit.train_losses) = fit.epoch
                  /\ Len(fit.val_losses) = fit.epoch
            /\ fpc = "t_iter" =>
                  /\ Len(fit.train_loss_items) = Cardinality(fit.served)
                  /\ {fit.train_loss_items[i].batch : i \in 1..Len(fit.train_loss_items)}
                        = fit.served
                  /\ ms.params = fit.epoch * TLen + Cardinality(fit.served)
            /\ fpc \in {"criterion", "l1", "backward", "step"} =>
                  /\ fit.outputs.input = fit.batch
                  /\ fit.outputs.params = ms.params
            /\ fpc \in {"l1", "backward", "step", "record"} =>
                  /\ fit.loss.batch = fit.batch
                  /\ fit.loss.epoch = fit.epoch
            /\ fpc \in {"forward", "criterion", "l1", "backward"} => ms.grads = {}
            /\ fpc \in {"backward", "step", "record"} => fit.loss.l1
            /\ fpc \in {"step", "record"} => ms.grads = {fit.loss}
            /\ fpc = "record" => ms.params = fit.outputs.params + 1
            /\ fpc \in ValPhase \cup {"eval_mode"} =>
                  /\ Len(fit.train_losses) = fit.epoch + 1
                  /\ fit.train_losses[fit.epoch + 1].n = TLen
                  /\ Len(fit.val_losses) = fit.epoch
                  /\ ms.params = (fit.epoch + 1) * TLen
            /\ fpc \in ValPhase => ~ms.training
            /\ fpc = "v_iter" => Len(fit.val_loss_items) = Cardinality(fit.served)

C8_Witness ==
    /\ fpc = "v_forward"
    /\ fit.epoch = 1
    /\ TLen >= 2
    /\ Len(fit.val_losses) = 1

ParamsOnlyAtStep ==
    \A m \in Models :
        models'[m].params # models[m].params =>
            /\ fpc = "step"
            /\ m = fit.optimizer
            /\ models[m].training
            /\ models'[m].params = models[m].params + 1

UpdatesCounted ==
    /\ fpc = "returned" => models[fit.gnn1_model].params = fit.num_epochs * TLen
    /\ \A m \in Models :
          cell \in {Cells[m].eval, Cells[m].loop, Cells[m].next} =>
              models[m].params = hyper.num_epochs * LoaderLen(hyper.t_loader)

\* C9: parameters change only at an optimizer step of the training phase,
\* with the model in training mode; the validation phase and the evaluation
\* cells leave them alone, and one call of fitGNN makes num_epochs times the
\* number of training batches updates.
C9_ParamsChangeOnlyAtStep == []UpdatesCounted /\ [][ParamsOnlyAtStep]_vars

C9_Witness ==
    /\ cell = "conv_eval_loop"
    /\ results.served # {}
    /\ LoaderLen(hyper.t_loader) >= 2
    /\ models["conv"].params = hyper.num_epochs * LoaderLen(hyper.t_loader)

\* C10 as stated: a call of fitGNN with a loader that yields no batch never
\* returns.
C10_EmptyLoaderNeverReturns ==
    (InFit /\ (TLen = 0 \/ VLen = 0)) => fpc \notin {"return", "returned"}

\* C10, amended: with num_epochs >= 1 and a loader that yields no batch,
\* fitGNN stops in its first epoch with a ZeroDivisionError and returns
\* nothing: at the training average when the training loader is empty, at
\* the validation average when only the validation loader is empty.
C10_EmptyLoaderFailsInFirstEpoch ==
    (InFit /\ fit.num_epochs >= 1 /\ (TLen = 0 \/ VLen = 0)) =>
        /\ fpc \notin {"return", "returned"}
        /\ fit.epoch = 0
        /\ ~ENABLED Next => fpc = "raised"
        /\ fpc = "raised" =>
              /\ error = "ZeroDivisionError"
              /\ fit.val_losses = <<>>
              /\ TLen = 0 => fit.train_losses = <<>> /\ models[fit.gnn1_model].params = 0
              /\ TLen > 0 => Len(fit.train_losses) = 1 /\ fit.val_loss_items = <<>>

C10_Witness ==
    /\ fpc = "raised"
    /\ fit.num_epochs >= 1
    /\ TLen > 0
    /\ VLen = 0

MismatchedRows == Oids(df_test) \cap Oids(data_train)

ZeroBondRows(rows) == {i \in 1..Len(rows) : ZeroBond(rows[i].mol)}

\* C11: the two splits are made independently.  A molecule can be in df_test
\* while its graph is in data_train, and this happens only with a zero-bond
\* molecule among the rows before the classical cut-off; with no zero-bond
\* molecule in the table the two training partitions hold the same
\* molecules, and so do the two test partitions.
C11_SplitsAgreeWithoutZeroBond ==
    SplitDone =>
        /\ ZeroBondRows(df) = {} =>
              /\ Oids(data_train) = Oids(df_train)
              /\ Oids(data_test) = Oids(df_test)
        /\ MismatchedRows # {} => ZeroBondRows(df_train) # {}

C11_Witness ==
    /\ SplitDone
    /\ MismatchedRows # {}
    /\ ZeroBondRows(df_train) # {}

\* C12: a call with num_epochs >= 1 that returns leaves the model in
\* evaluation mode, as does the end of every epoch; a call with
\* num_epochs = 0 never enters the loop body: no mode switch, no optimizer
\* step, and it returns the model as it was passed with two empty histories.
C12_ModeAtReturn ==
    InFit =>
        LET ms == models[fit.gnn1_model]
        IN  /\ (fpc \in {"return", "returned"} /\ fit.num_epochs >= 1) =>
                  /\ ~ms.training
                  /\ TLen > 0
                  /\ VLen > 0
            /\ (fpc = "epoch_head" /\ fit.epoch >= 1) => ~ms.training
            /\ fit.num_epochs = 0 =>
                  /\ fpc \in {"init", "epoch_head", "return", "returned"}
                  /\ ms = NewModel
                  /\ fit.epoch = 0
                  /\ fpc \in {"epoch_head", "return", "returned"} =>
                        /\ fit.train_losses = <<>>
                        /\ fit.val_losses = <<>>

C12_Witness ==
    /\ fpc = "returned"
    /\ fit.num_epochs = 0
    /\ TLen > 0
    /\ VLen > 0
    /\ models[fit.gnn1_model].training
    /\ fit.train_losses = <<>>

\* C13: with an empty validation loader and a non-empty training loader,
\* fitGNN raises nothing during the training phase; it fails at the
\* validation average of the first epoch, and the state it leaves is not
\* rolled back: one optimizer step per training batch has been applied,
\* train_losses holds the one average over all training batches, val_losses
\* is empty, and the model is in evaluation mode.
C13_PartialStateAtFailure ==
    (InFit /\ fit.num_epochs >= 1 /\ TLen > 0 /\ VLen = 0) =>
        LET ms == models[fit.gnn1_model]
        IN  /\ fpc # "raised" => error = "none"
            /\ ms.params <= TLen
            /\ fpc = "raised" =>
                  /\ error = "ZeroDivisionError"
                  /\ fit.epoch = 0
                  /\ ms.params = TLen
                  /\ ~ms.training
                  /\ Len(fit.train_losses) = 1
                  /\ fit.train_losses[1].n = TLen
                  /\ fit.val_losses = <<>>
                  /\ Len(fit.train_losses) # Len(fit.val_losses)

C13_Witness ==
    /\ fpc = "raised"
    /\ error = "ZeroDivisionError"
    /\ TLen >= 2
    /\ VLen = 0
    /\ models[fit.gnn1_model].params = TLen
    /\ ~models[fit.gnn1_model].training

\* the first fitGNN call has come back
ConvTrained ==
    \/ cell = "conv_fit" /\ fpc = "returned"
    \/ cell \in {"conv_eval", "conv_eval_loop", "atten_fit", "atten_eval",
                 "atten_eval_loop", "bar", "done"}

\* the second fitGNN call has come back and its result has been assigned
AttenAssigned == cell \in {"atten_eval", "atten_eval_loop", "bar", "done"}

\* every batch loss behind the averages of a history was computed on model m
HistoryOf(history, m) ==
    \A i \in 1..Len(history) : \A l \in history[i].of : l.model = m

ConvKept ==
    /\ (cell = "atten_fit" /\ InFit) =>
          /\ optimizer = "atten"
          /\ fit.optimizer = "atten"
          /\ fit.gnn1_model = "atten"
    /\ cell \in {"conv_eval", "conv_eval_loop"} =>
          /\ HistoryOf(results.train_losses, "conv")
          /\ HistoryOf(results.val_losses, "conv")
    /\ (cell = "atten_fit" \/ AttenAssigned) =>
          /\ Len(results.plots) >= 1
          /\ results.plots[1].name = "conv"
          /\ Len(results.plots[1].train_losses) = hyper.num_epochs
          /\ Len(results.plots[1].val_losses) = hyper.num_epochs
          /\ HistoryOf(results.plots[1].train_losses, "conv")
          /\ HistoryOf(results.plots[1].val_losses, "conv")
          /\ results.mse["conv"].set
          /\ results.mse["conv"].params = models["conv"].params
    /\ AttenAssigned =>
          /\ HistoryOf(results.train_losses, "atten")
          /\ HistoryOf(results.val_losses, "atten")
          /\ results.train_losses # results.plots[1].train_losses
    /\ cell = "done" =>
          /\ results.bar[3] = results.mse["conv"]
          /\ results.bar[3].params = models["conv"].params

ConvUntouched ==
    ConvTrained =>
        /\ models'["conv"].params = models["conv"].params
        /\ results.mse["conv"].set => results'.mse["conv"] = results.mse["conv"]
        /\ Len(results.plots) >= 1 =>
              /\ Len(results'.plots) >= 1
              /\ results'.plots[1] = results.plots[1]

\* C14: the notebook reuses the names optimizer, train_losses and val_losses
\* for both models, yet training the attention model leaves the convolutional
\* one untouched: the second optimizer holds only the attention model's
\* parameters, so from the return of the first fitGNN call to the bar chart
\* the convolutional parameters and gnn_conv_mse do not change, and the
\* convolutional loss history is plotted before the second call's result
\* overwrites train_losses and val_losses.
C14_ConvModelUntouched == []ConvKept /\ [][ConvUntouched]_vars

C14_Witness ==
    /\ cell = "done"
    /\ optimizer = "atten"
    /\ models["conv"].params > 0
    /\ models["atten"].params > 0
    /\ Len(results.plots) = 2
    /\ results.plots[1].name = "conv"
    /\ results.train_losses # results.plots[1].train_losses
    /\ results.bar[3].params = models["conv"].params

====
